---- MODULE Spec2Model ----
(***************************************************************************)
(* A model of motif-mark-oop.py: the degenerate-motif scanner              *)
(* (build_regex, find_motif), exon detection, colour assignment and the    *)
(* scale-and-draw layout of the __main__ pipeline.                         *)
(*                                                                         *)
(* A Python str is modelled as a sequence of one-character strings.        *)
(* A Python float produced by the layout is modelled as an exact rational  *)
(* <<numerator, denominator>>.                                             *)
(***************************************************************************)
EXTENDS Integers, Sequences, FiniteSets, TLC

VARIABLES
    \* ---- the pipeline of __main__ ----
    pc,            \* position in __main__
    exc,           \* the unhandled exception that ended the run, or "none"
    fasta_file,    \* lines of args.fasta
    motif_file,    \* lines of args.motifs
    oneline,       \* lines of the oneline_ file written by oneline_fasta
    color_set,     \* the pool of colours not yet handed out
    motif_dict,    \* insertion-ordered dict: sequence of <<motif, colour>>
    m_i,           \* number of motif lines consumed
    i,             \* enumerate index of the record loop
    record,        \* the current record (list of lines)
    GENEGROUP_LIST,\* GeneGroup.GENEGROUP_LIST
    HEIGHT,        \* canvas height, or None before it is computed
    scale_factor,  \* rational, or None before it is computed
    k,             \* enumerate index of the draw loop
    y_pos,         \* y_pos of __main__
    rows,          \* y position at which each drawn GeneGroup was drawn
    printed,       \* messages written to stdout
    png_written,   \* whether write_to_png ran
    \* ---- direct application of the pure functions ----
    fn_pc, in_seq, in_motif, out_matches, out_exon

vars == <<pc, exc, fasta_file, motif_file, oneline, color_set, motif_dict, m_i,
          i, record, GENEGROUP_LIST, HEIGHT, scale_factor, k, y_pos, rows,
          printed, png_written, fn_pc, in_seq, in_motif, out_matches, out_exon>>

pipeline_vars == <<pc, exc, fasta_file, motif_file, oneline, color_set,
                   motif_dict, m_i, i, record, GENEGROUP_LIST, HEIGHT,
                   scale_factor, k, y_pos, rows, printed, png_written>>

fn_vars == <<fn_pc, in_seq, in_motif, out_matches, out_exon>>

\* None where the other values are integers (a match object's end(), a start index)
NoMatch == -1
\* None where the other values are objects (records)
None == [cls |-> "NoneType"]
\* a name of __main__ not yet bound
Unbound == <<>>

(***************************************************************************)
(* Bounds of the model.                                                    *)
(***************************************************************************)
MaxSeqLen == 3        \* longest sequence handed to the pure functions
MaxMotifLen == 2      \* longest multi-character motif handed to find_motif
MaxMotifLines == 6    \* longest motif list read by the pipeline

Range(s) == {s[n] : n \in DOMAIN s}

\* All sequences over alphabet A of length 0..n.
RECURSIVE StringsUpTo(_, _)
StringsUpTo(A, n) ==
    IF n = 0 THEN {<<>>}
    ELSE LET shorter == StringsUpTo(A, n - 1)
         IN  shorter \cup {Append(s, c) : s \in {t \in shorter : Len(t) = n - 1}, c \in A}

(***************************************************************************)
(* str.lower() and str.strip() on the characters the model uses.           *)
(***************************************************************************)
lower(c) ==
    CASE c = "A" -> "a" [] c = "C" -> "c" [] c = "G" -> "g" [] c = "T" -> "t"
      [] c = "U" -> "u" [] c = "N" -> "n" [] c = "Y" -> "y" [] c = "R" -> "r"
      [] c = "M" -> "m" [] c = "K" -> "k" [] c = "S" -> "s" [] c = "W" -> "w"
      [] c = "H" -> "h" [] c = "B" -> "b" [] c = "V" -> "v" [] c = "D" -> "d"
      [] OTHER -> c

str_lower(s) == [n \in 1..Len(s) |-> lower(s[n])]

Whitespace == {" "}

RECURSIVE lstrip(_)
lstrip(s) == IF s # <<>> /\ Head(s) \in Whitespace THEN lstrip(Tail(s)) ELSE s

RECURSIVE rstrip(_)
rstrip(s) ==
    IF s # <<>> /\ s[Len(s)] \in Whitespace THEN rstrip(SubSeq(s, 1, Len(s) - 1)) ELSE s

strip(s) == rstrip(lstrip(s))

(***************************************************************************)
(* build_regex: each base becomes the character class of the mapping, or   *)
(* itself (mapping.get(base, base)).  The pattern is the sequence of the   *)
(* per-position classes.                                                   *)
(***************************************************************************)
mapping_t_literal(base) ==
    CASE base = "y" -> {"c", "t", "u"}
      [] base = "u" -> {"u", "t"}
      [] base = "r" -> {"a", "g"}
      [] base = "m" -> {"a", "c"}
      [] base = "k" -> {"g", "t"}
      [] base = "s" -> {"g", "c"}
      [] base = "w" -> {"a", "t"}
      [] base = "h" -> {"a", "c", "t"}
      [] base = "b" -> {"c", "g", "t"}
      [] base = "v" -> {"a", "c", "g"}
      [] base = "d" -> {"a", "g", "t"}
      [] base = "n" -> {"a", "t", "c", "g", "u"}
      [] OTHER -> {base}

mapping(base) ==
    CASE base = "y" -> {"c", "t", "u"}
      [] base = "t" -> {"u", "t"}
      [] base = "u" -> {"u", "t"}
      [] base = "r" -> {"a", "g"}
      [] base = "m" -> {"a", "c"}
      [] base = "k" -> {"g", "t"}
      [] base = "s" -> {"g", "c"}
      [] base = "w" -> {"a", "t"}
      [] base = "h" -> {"a", "c", "t"}
      [] base = "b" -> {"c", "g", "t"}
      [] base = "v" -> {"a", "c", "g"}
      [] base = "d" -> {"a", "g", "t"}
      [] base = "n" -> {"a", "t", "c", "g", "u"}
      [] OTHER -> {base}

build_regex(motif) == [n \in 1..Len(motif) |-> mapping(motif[n])]

(***************************************************************************)
(* re.match(pattern, s): the pattern is anchored at the start of s and     *)
(* every class consumes exactly one character.  The result is match.end()  *)
(* (match.start() is 0), or NoMatch.                                        *)
(***************************************************************************)
re_match(pattern, s) ==
    IF Len(s) >= Len(pattern) /\ \A n \in 1..Len(pattern) : s[n] \in pattern[n]
    THEN Len(pattern)
    ELSE NoMatch

\* seq[i:] with a 0-based i
slice_from(s, idx) == SubSeq(s, idx + 1, Len(s))

\* A scan that resumes after the end of each match (re.finditer semantics).
RECURSIVE find_motif_loop_skip(_, _, _, _)
find_motif_loop_skip(pattern, seq, idx, matches) ==
    IF idx >= Len(seq) THEN matches
    ELSE LET match == re_match(pattern, slice_from(seq, idx))
         IN  IF match # NoMatch
             THEN find_motif_loop_skip(pattern, seq, idx + (IF match = 0 THEN 1 ELSE match),
                                       Append(matches, <<idx + 0, idx + match - 1>>))
             ELSE find_motif_loop_skip(pattern, seq, idx + 1, matches)

find_motif_nonoverlapping(seq, motif) ==
    find_motif_loop_skip(build_regex(str_lower(motif)), str_lower(seq), 0, <<>>)

\* Lines 152-160.  ends[idx] is what re.match gives in iteration idx of the
\* loop; the indices that matched are kept in loop order and each appends
\* (i + match.start(), i + match.end() - 1).
find_motif(seq, motif) ==
    LET s == str_lower(seq)
        pattern == build_regex(str_lower(motif))
        ends == [idx \in 0..(Len(s) - 1) |-> re_match(pattern, slice_from(s, idx))]
        Matched(idx) == ends[idx] # NoMatch
        hits == SelectSeq([n \in 1..Len(s) |-> n - 1], Matched)
    IN  [n \in 1..Len(hits) |-> <<hits[n] + 0, hits[n] + ends[hits[n]] - 1>>]

(***************************************************************************)
(* Exon detection: re.search("[ACTGU]+", record[1]) on the sequence as     *)
(* read, then Exon(match.start(), match.end() - 1).                        *)
(***************************************************************************)
ExonClass_ignorecase == {"A", "C", "T", "G", "U", "a", "c", "t", "g", "u"}

ExonClass == {"A", "C", "T", "G", "U"}

\* match.start(): the leftmost 0-based index holding a character of the
\* class, or NoMatch
search_start(s) ==
    LET at == {n \in 1..Len(s) : s[n] \in ExonClass}
    IN  IF at = {} THEN NoMatch
        ELSE (CHOOSE n \in at : \A m \in at : n <= m) - 1

\* match.end() of the greedy run that starts at the 0-based index st
search_end(s, st) ==
    CHOOSE e \in (st + 1)..Len(s) :
        /\ \A n \in (st + 1)..e : s[n] \in ExonClass
        /\ (e = Len(s) \/ s[e + 1] \notin ExonClass)

\* the match object, or None
re_search_exon(s) ==
    LET st == search_start(s)
    IN  IF st = NoMatch THEN None ELSE [cls |-> "Match", start |-> st, end |-> search_end(s, st)]


\* Lines 197-202: the Exon of a sequence, or None when the search finds
\* nothing (the AttributeError on None.start() is caught and a message printed).
Exon(start, stop) == [cls |-> "Exon", start |-> start, stop |-> stop]

detect_exon(seq) ==
    LET exon_match == re_search_exon(seq)
    IN  IF exon_match = None THEN None
        ELSE Exon(exon_match.start, exon_match.end - 1)

(***************************************************************************)
(* Numbers of the layout.  A number is a pair <<n, d>> standing for n/d;   *)
(* an int has d = 1.  int * float and int / int give such a pair.          *)
(***************************************************************************)
Num(v) == <<v, 1>>
RTimes(a, b) == <<a[1] * b[1], a[2] * b[2]>>
RDiv(a, b) == <<a[1] * b[2], a[2] * b[1]>>
REq(a, b) == a[1] * b[2] = b[1] * a[2]
RLe(a, b) ==
    IF a[2] * b[2] > 0 THEN a[1] * b[2] <= b[1] * a[2] ELSE a[1] * b[2] >= b[1] * a[2]

(***************************************************************************)
(* oneline_fasta.  A file is the sequence of its lines (each ended by a    *)
(* newline in the input).  The first line is copied; a line holding ">"    *)
(* is written on a line of its own, which also ends the text before it;    *)
(* any other line is appended to the current line without its newline.     *)
(* The result is the sequence of lines a reader of the written file gets.  *)
(***************************************************************************)
RECURSIVE oneline_loop(_, _, _, _)
oneline_loop(file, n, out, cur) ==
    IF n > Len(file) THEN (IF cur # <<>> THEN Append(out, cur) ELSE out)
    ELSE IF ">" \in Range(file[n])
         THEN oneline_loop(file, n + 1, Append(Append(out, cur), file[n]), <<>>)
         ELSE oneline_loop(file, n + 1, out, cur \o file[n])

oneline_fasta(file) ==
    IF file = <<>> THEN <<>> ELSE oneline_loop(file, 2, <<file[1]>>, <<>>)

(***************************************************************************)
(* Colour assignment (lines 169-183).                                      *)
(***************************************************************************)
Palette == {"teal", "violet", "magenta", "orange", "amber"}

\* motif_dict[key] = value on an insertion-ordered dict
dict_set(d, key, value) ==
    IF \E n \in 1..Len(d) : d[n][1] = key
    THEN [n \in 1..Len(d) |-> IF d[n][1] = key THEN <<key, value>> ELSE d[n]]
    ELSE Append(d, <<key, value>>)


\* a pool that keeps the colour it handed out
pool_keep(pool, color) == pool

\* color_set.remove(motif_dict[line])
pool_remove(pool, color) == pool \ {color}

(***************************************************************************)
(* Drawables (lines 17-106).                                               *)
(***************************************************************************)
Motif(start, stop, color) ==
    [cls |-> "Motif", start |-> start, stop |-> stop, color |-> color]
Gene(start, stop, name) == [cls |-> "Gene", start |-> start, stop |-> stop, name |-> name]
GeneGroup(exon, motifs, gene) == [exon |-> exon, motifs |-> motifs, gene |-> gene]

\* lines 194-196: one Motif per position, in order
motifs_at(positions, color) ==
    [n \in 1..Len(positions) |->
        Motif(Num(positions[n][1]), Num(positions[n][2]), color)]

\* lines 191-196: the Motif objects of a sequence, motif by motif in dict order
RECURSIVE motif_objects_from(_, _, _)
motif_objects_from(seq, d, n) ==
    IF n > Len(d) THEN <<>>
    ELSE motifs_at(find_motif(seq, d[n][1]), d[n][2]) \o motif_objects_from(seq, d, n + 1)

\* lines 197-200 with the coordinates as numbers
exon_of(seq) ==
    LET e == detect_exon(seq)
    IN  IF e = None THEN None ELSE [cls |-> "Exon", start |-> Num(e.start), stop |-> Num(e.stop)]

\* lines 191-204: the GeneGroup of a record
gene_group_of(rec, d) ==
    GeneGroup(exon_of(rec[2]),
              motif_objects_from(rec[2], d, 1),
              Gene(Num(0), Num(Len(rec[2]) - 1), rec[1]))

(***************************************************************************)
(* Layout constants (lines 208-229).                                       *)
(***************************************************************************)
WIDTH == 1000
BaseHeight == 100
HeightPerGroup == 70
x_padding == 50
y_padding == 50
RowStep == 80

\* unscaled gene.stop of a group not yet scaled
RECURSIVE max_stop(_, _)
max_stop(groups, n) ==
    IF n = Len(groups) THEN groups[n].gene.stop[1]
    ELSE LET rest == max_stop(groups, n + 1)
             here == groups[n].gene.stop[1]
         IN  IF here >= rest THEN here ELSE rest

\* the length of the longest gene instead of its last index
max_gene_length_as_length(groups) == max_stop(groups, 1) + 1

\* line 224
max_gene_length(groups) == max_stop(groups, 1)

\* x *= scale_factor on a drawable's start and stop
scaled(obj, factor) ==
    [obj EXCEPT !.start = RTimes(@, factor), !.stop = RTimes(@, factor)]

(***************************************************************************)
(* Inputs of a run.                                                        *)
(***************************************************************************)
Rep(c, n) == [j \in 1..n |-> c]

H1 == <<">", "1">>
H2 == <<">", "2">>
H3 == <<">", "3">>

FastaFiles ==
    { <<>>,                                                  \* empty file
      <<H1>>,                                                \* a header and no sequence
      <<H1, <<"A">>>>,                                       \* one base
      <<H1, <<"a", "c">>, <<"G", "T">>, <<"n">>>>,           \* a sequence on three lines
      <<H1, <<"A", "c", "G">>, H2, <<"t", "A", "U", "G", "c">>, H3, <<"C", "a">>>>,
      <<H1, <<"A", "C">>, H2, <<"a", "c", "g", "t">>>>,      \* second gene all lower case
      <<H1, <<"N", "N", "N">>>>,                             \* no base at all
      <<H1, H2, <<"A", "C">>>>,                              \* two headers in a row
      <<H1, H2>>,                                            \* two headers and nothing else
      <<H1, <<"a", "t", "G", "C", "a", "t", "A", "T">>>>,    \* a gene of length 8
      <<H1, Rep("c", 40), Rep("A", 60), H2, <<"a", "c", "G", "T">>>> }  \* length 100

MotifLists ==
    { << <<"y">>, <<"a", "t">>, <<"N">>, <<"g", "c">>, <<"u">>, <<"c", "a">>,
         <<"t", "t">>, <<"r">> >>,
      << <<"a", "t">>, <<"a", "t">>, <<"a", "t">>, <<"a", "t">>, <<"a", "t">>,
         <<"a", "t">>, <<"a", "t">>, <<"a", "t">> >>,
      << <<" ", "y", "t", " ">>, <<>>, <<"a", "a">>, <<" ", "y", "t">>, <<"g">>,
         <<" ">>, <<"c">>, <<"u">> >> }

MotifFiles ==
    {SubSeq(L, 1, n) : L \in MotifLists, n \in 0..MaxMotifLines}

FnIdle ==
    /\ fn_pc = "idle" /\ in_seq = <<>> /\ in_motif = <<>>
    /\ out_matches = <<>> /\ out_exon = None

(***************************************************************************)
(* The pipeline of __main__.                                               *)
(***************************************************************************)
Init ==
    /\ pc = "oneline_fasta" /\ exc = "none"
    /\ fasta_file \in FastaFiles
    /\ motif_file \in MotifFiles
    /\ oneline = <<>>
    /\ color_set = Palette
    /\ motif_dict = <<>> /\ m_i = 0
    /\ i = 0 /\ record = <<>> /\ GENEGROUP_LIST = <<>>
    /\ HEIGHT = Unbound /\ scale_factor = Unbound
    /\ k = 0 /\ y_pos = Unbound /\ rows = <<>>
    /\ printed = <<>> /\ png_written = FALSE
    /\ FnIdle

\* line 167
OnelineFasta ==
    /\ pc = "oneline_fasta"
    /\ oneline' = oneline_fasta(fasta_file)
    /\ pc' = "read_motifs"
    /\ UNCHANGED <<exc, fasta_file, motif_file, color_set, motif_dict, m_i, i, record,
                   GENEGROUP_LIST, HEIGHT, scale_factor, k, y_pos, rows, printed,
                   png_written>>
    /\ UNCHANGED fn_vars

\* lines 180-183, one line of the motif file with a colour left in the pool
ReadMotifLine ==
    /\ pc = "read_motifs"
    /\ m_i < Len(motif_file)
    /\ color_set # {}
    /\ \E color \in color_set :
          LET line == strip(motif_file[m_i + 1])
          IN  /\ motif_dict' = dict_set(motif_dict, line, color)
              /\ color_set' = pool_remove(color_set, color)
    /\ m_i' = m_i + 1
    /\ UNCHANGED <<pc, exc, fasta_file, motif_file, oneline, i, record, GENEGROUP_LIST,
                   HEIGHT, scale_factor, k, y_pos, rows, printed, png_written>>
    /\ UNCHANGED fn_vars

\* line 182 with an empty pool: random.choice([]) raises IndexError
ReadMotifLineEmptyPool ==
    /\ pc = "read_motifs"
    /\ m_i < Len(motif_file)
    /\ color_set = {}
    /\ pc' = "crashed"
    /\ exc' = "IndexError"
    /\ UNCHANGED <<fasta_file, motif_file, oneline, color_set, motif_dict, m_i, i, record,
                   GENEGROUP_LIST, HEIGHT, scale_factor, k, y_pos, rows, printed,
                   png_written>>
    /\ UNCHANGED fn_vars

\* end of the motif file
MotifsRead ==
    /\ pc = "read_motifs"
    /\ m_i = Len(motif_file)
    /\ pc' = "read_records"
    /\ UNCHANGED <<exc, fasta_file, motif_file, oneline, color_set, motif_dict, m_i, i,
                   record, GENEGROUP_LIST, HEIGHT, scale_factor, k, y_pos, rows, printed,
                   png_written>>
    /\ UNCHANGED fn_vars

\* lines 187-190, a line at an even index: it is kept as record[0]
ReadHeaderLine ==
    /\ pc = "read_records"
    /\ i < Len(oneline)
    /\ i % 2 = 0
    /\ record' = Append(record, strip(oneline[i + 1]))
    /\ i' = i + 1
    /\ UNCHANGED <<pc, exc, fasta_file, motif_file, oneline, color_set, motif_dict, m_i,
                   GENEGROUP_LIST, HEIGHT, scale_factor, k, y_pos, rows, printed,
                   png_written>>
    /\ UNCHANGED fn_vars

\* lines 187-205, a line at an odd index: the record is complete
ReadSequenceLine ==
    /\ pc = "read_records"
    /\ i < Len(oneline)
    /\ i % 2 # 0
    /\ LET rec == Append(record, strip(oneline[i + 1]))
           group == gene_group_of(rec, motif_dict)
       IN  /\ GENEGROUP_LIST' = Append(GENEGROUP_LIST, group)
           /\ printed' = IF group.exon = None
                         THEN Append(printed, "There's no exon in this gene, that can't be right.")
                         ELSE printed
    /\ record' = <<>>
    /\ i' = i + 1
    /\ UNCHANGED <<pc, exc, fasta_file, motif_file, oneline, color_set, motif_dict, m_i,
                   HEIGHT, scale_factor, k, y_pos, rows, png_written>>
    /\ UNCHANGED fn_vars

\* end of the oneline file
RecordsRead ==
    /\ pc = "read_records"
    /\ i = Len(oneline)
    /\ pc' = "layout"
    /\ UNCHANGED <<exc, fasta_file, motif_file, oneline, color_set, motif_dict, m_i, i,
                   record, GENEGROUP_LIST, HEIGHT, scale_factor, k, y_pos, rows, printed,
                   png_written>>
    /\ UNCHANGED fn_vars

canvas_height(groups) == BaseHeight + Len(groups) * HeightPerGroup

\* lines 208-225 with no GeneGroup: max() of an empty sequence raises ValueError
LayoutNoGroups ==
    /\ pc = "layout"
    /\ GENEGROUP_LIST = <<>>
    /\ HEIGHT' = canvas_height(GENEGROUP_LIST)
    /\ y_pos' = 0
    /\ pc' = "crashed"
    /\ exc' = "ValueError"
    /\ UNCHANGED <<fasta_file, motif_file, oneline, color_set, motif_dict, m_i, i, record,
                   GENEGROUP_LIST, scale_factor, k, rows, printed, png_written>>
    /\ UNCHANGED fn_vars

\* lines 208-225 when the largest gene.stop is 0: the division raises ZeroDivisionError
LayoutZeroDivision ==
    /\ pc = "layout"
    /\ GENEGROUP_LIST # <<>>
    /\ max_gene_length(GENEGROUP_LIST) = 0
    /\ HEIGHT' = canvas_height(GENEGROUP_LIST)
    /\ y_pos' = 0
    /\ pc' = "crashed"
    /\ exc' = "ZeroDivisionError"
    /\ UNCHANGED <<fasta_file, motif_file, oneline, color_set, motif_dict, m_i, i, record,
                   GENEGROUP_LIST, scale_factor, k, rows, printed, png_written>>
    /\ UNCHANGED fn_vars

\* lines 208-225
Layout ==
    /\ pc = "layout"
    /\ GENEGROUP_LIST # <<>>
    /\ max_gene_length(GENEGROUP_LIST) # 0
    /\ HEIGHT' = canvas_height(GENEGROUP_LIST)
    /\ y_pos' = 0
    /\ scale_factor' = RDiv(Num(WIDTH - 2 * x_padding), Num(max_gene_length(GENEGROUP_LIST)))
    /\ pc' = "draw"
    /\ UNCHANGED <<exc, fasta_file, motif_file, oneline, color_set, motif_dict, m_i, i,
                   record, GENEGROUP_LIST, k, rows, printed, png_written>>
    /\ UNCHANGED fn_vars

\* line 229
row_y(n) == y_padding + n * RowStep

\* lines 229-238 for a group with an exon: scale everything, then draw the row
ScaleAndDraw ==
    /\ pc = "draw"
    /\ k < Len(GENEGROUP_LIST)
    /\ GENEGROUP_LIST[k + 1].exon # None
    /\ y_pos' = row_y(k)
    /\ LET g == GENEGROUP_LIST[k + 1]
       IN  GENEGROUP_LIST' =
               [GENEGROUP_LIST EXCEPT ![k + 1] =
                   [gene |-> scaled(g.gene, scale_factor),
                    exon |-> scaled(g.exon, scale_factor),
                    motifs |-> [n \in 1..Len(g.motifs) |-> scaled(g.motifs[n], scale_factor)]]]
    /\ rows' = Append(rows, y_pos')
    /\ k' = k + 1
    /\ UNCHANGED <<pc, exc, fasta_file, motif_file, oneline, color_set, motif_dict, m_i, i,
                   record, HEIGHT, scale_factor, printed, png_written>>
    /\ UNCHANGED fn_vars

\* lines 229-232 for a group whose exon is None: the gene is scaled, then
\* gene_group.exon.start raises AttributeError
ScaleNullExon ==
    /\ pc = "draw"
    /\ k < Len(GENEGROUP_LIST)
    /\ GENEGROUP_LIST[k + 1].exon = None
    /\ y_pos' = row_y(k)
    /\ GENEGROUP_LIST' =
           [GENEGROUP_LIST EXCEPT ![k + 1].gene = scaled(@, scale_factor)]
    /\ pc' = "crashed"
    /\ exc' = "AttributeError"
    /\ UNCHANGED <<fasta_file, motif_file, oneline, color_set, motif_dict, m_i, i, record,
                   HEIGHT, scale_factor, k, rows, printed, png_written>>
    /\ UNCHANGED fn_vars

\* lines 240-277: the legend and the PNG
LegendAndSave ==
    /\ pc = "draw"
    /\ k = Len(GENEGROUP_LIST)
    /\ png_written' = TRUE
    /\ pc' = "done"
    /\ UNCHANGED <<exc, fasta_file, motif_file, oneline, color_set, motif_dict, m_i, i,
                   record, GENEGROUP_LIST, HEIGHT, scale_factor, k, y_pos, rows, printed>>
    /\ UNCHANGED fn_vars

Next ==
    \/ OnelineFasta
    \/ ReadMotifLine
    \/ ReadMotifLineEmptyPool
    \/ MotifsRead
    \/ ReadHeaderLine
    \/ ReadSequenceLine
    \/ RecordsRead
    \/ LayoutNoGroups
    \/ LayoutZeroDivision
    \/ Layout
    \/ ScaleAndDraw
    \/ ScaleNullExon
    \/ LegendAndSave

Spec == Init /\ [][Next]_vars

(***************************************************************************)
(* The pure functions applied to bounded inputs.                           *)
(***************************************************************************)
SeqAlphabet == {"A", "c", "G", "t", "u", "N"}
MotifCodes == {"a", "c", "g", "t", "u", "y", "r", "m", "k", "s", "w", "h", "b",
               "v", "d", "n", "Y", "T", "N"}
MotifAlphabet == {"a", "c", "T", "u", "y", "n"}

Sequences == StringsUpTo(SeqAlphabet, MaxSeqLen)
Motifs == StringsUpTo(MotifAlphabet, MaxMotifLen) \cup {<<c>> : c \in MotifCodes}

PipelineIdle ==
    /\ pc = "idle" /\ exc = "none"
    /\ fasta_file = <<>> /\ motif_file = <<>> /\ oneline = <<>>
    /\ color_set = {} /\ motif_dict = <<>> /\ m_i = 0
    /\ i = 0 /\ record = <<>> /\ GENEGROUP_LIST = <<>>
    /\ HEIGHT = Unbound /\ scale_factor = Unbound
    /\ k = 0 /\ y_pos = Unbound /\ rows = <<>>
    /\ printed = <<>> /\ png_written = FALSE

ScanInit ==
    /\ PipelineIdle
    /\ fn_pc \in {"call_find_motif", "call_detect_exon"}
    /\ in_seq \in Sequences
    /\ in_motif \in (IF fn_pc = "call_find_motif" THEN Motifs ELSE {<<>>})
    /\ out_matches = <<>>
    /\ out_exon = None

CallFindMotif ==
    /\ fn_pc = "call_find_motif"
    /\ out_matches' = find_motif(in_seq, in_motif)
    /\ fn_pc' = "scanned"
    /\ UNCHANGED <<in_seq, in_motif, out_exon>>
    /\ UNCHANGED pipeline_vars

CallDetectExon ==
    /\ fn_pc = "call_detect_exon"
    /\ out_exon' = detect_exon(in_seq)
    /\ fn_pc' = "detected"
    /\ UNCHANGED <<in_seq, in_motif, out_matches>>
    /\ UNCHANGED pipeline_vars

ScanNext == CallFindMotif \/ CallDetectExon

SpecScan == ScanInit /\ [][ScanNext]_vars

(***************************************************************************)
(* Claims about find_motif.                                                *)
(***************************************************************************)
\* The table of ambiguity codes as the specification states it
\* (a, c, g literal; t and u both {t, u}).
AmbiguityTable(code) ==
    CASE code = "a" -> {"a"} [] code = "c" -> {"c"} [] code = "g" -> {"g"}
      [] code = "t" -> {"t", "u"} [] code = "u" -> {"t", "u"}
      [] code = "y" -> {"c", "t", "u"} [] code = "r" -> {"a", "g"}
      [] code = "m" -> {"a", "c"} [] code = "k" -> {"g", "t"}
      [] code = "s" -> {"g", "c"} [] code = "w" -> {"a", "t"}
      [] code = "h" -> {"a", "c", "t"} [] code = "b" -> {"c", "g", "t"}
      [] code = "v" -> {"a", "c", "g"} [] code = "d" -> {"a", "g", "t"}
      [] code = "n" -> {"a", "t", "c", "g", "u"}
      [] OTHER -> {}

TableCodes == {"a", "c", "g", "t", "u", "y", "r", "m", "k", "s", "w", "h", "b",
               "v", "d", "n"}

\* window of S at 0-based start idx satisfies M position by position
WindowSatisfies(S, M, idx) ==
    /\ idx + Len(M) <= Len(S)
    /\ \A j \in 1..Len(M) : lower(S[idx + j]) \in AmbiguityTable(lower(M[j]))

ExpectedOccurrences(S, M) ==
    LET all == [n \in 1..Len(S) |-> <<n - 1, n - 1 + Len(M) - 1>>]
        Hit(p) == WindowSatisfies(S, M, p[1])
    IN  SelectSeq(all, Hit)

\* C1: for every sequence S and motif M of length L >= 1 over the table's
\* codes, find_motif(S, M) is exactly the list of (i, i+L-1), in increasing i,
\* for every start i in 0..len(S)-L whose window satisfies the table position
\* by position; overlaps are all reported and no short tail window is.
C1_FindMotifAllWindows ==
    (/\ fn_pc = "scanned"
     /\ Len(in_motif) >= 1
     /\ \A j \in 1..Len(in_motif) : lower(in_motif[j]) \in TableCodes)
    => out_matches = ExpectedOccurrences(in_seq, in_motif)

\* C1 witness: an ambiguity-code motif of length 2 found at two overlapping
\* windows of a sequence whose last (short) window is not reported.
C1_Witness ==
    /\ fn_pc = "scanned"
    /\ Len(in_motif) = 2
    /\ \E j \in 1..2 : in_motif[j] = "y"
    /\ Len(in_seq) = 3
    /\ out_matches = <<<<0, 1>>, <<1, 2>>>>

\* t and u are one base
TU(c) == IF c = "u" THEN "t" ELSE c

Literals == {"a", "c", "g", "t", "u"}

C2_Applies ==
    /\ fn_pc = "scanned"
    /\ Len(in_motif) >= 1
    /\ Len(in_motif) <= Len(in_seq)
    /\ \A j \in 1..Len(in_motif) : lower(in_motif[j]) \in Literals

OccurrenceAt(idx) == \E n \in 1..Len(out_matches) : out_matches[n][1] = idx

\* C2 as stated: for a literal motif M with 1 <= L <= len(S), an occurrence
\* starts at i iff S[i:i+L] equals M, compared case-insensitively.
C2_LiteralEquality ==
    C2_Applies =>
        \A idx \in 0..(Len(in_seq) - 1) :
            OccurrenceAt(idx) <=>
                /\ idx + Len(in_motif) <= Len(in_seq)
                /\ \A j \in 1..Len(in_motif) :
                       lower(in_seq[idx + j]) = lower(in_motif[j])

\* C2 amended: for a literal motif M with 1 <= L <= len(S), an occurrence
\* starts at i iff S[i:i+L] equals M, compared case-insensitively and with
\* t and u taken as the same base.
C2_LiteralEqualityModTU ==
    C2_Applies =>
        \A idx \in 0..(Len(in_seq) - 1) :
            OccurrenceAt(idx) <=>
                /\ idx + Len(in_motif) <= Len(in_seq)
                /\ \A j \in 1..Len(in_motif) :
                       TU(lower(in_seq[idx + j])) = TU(lower(in_motif[j]))

\* C2 witness: a literal motif with t found where the sequence has u.
C2_Witness ==
    /\ C2_Applies
    /\ in_motif = <<"a", "T">>
    /\ in_seq = <<"A", "u", "N">>
    /\ out_matches = <<<<0, 1>>>>

(***************************************************************************)
(* Claims about exon detection.                                            *)
(***************************************************************************)
UpperBases == {"A", "C", "T", "G", "U"}
AnyCaseBases == {"A", "C", "T", "G", "U", "a", "c", "t", "g", "u"}

\* exon is the first maximal run of characters of B in s
FirstMaximalRun(exon, s, B) ==
    /\ exon # None
    /\ exon.start + 1 \in 1..Len(s)
    /\ \A n \in 1..exon.start : s[n] \notin B
    /\ exon.stop \in exon.start..(Len(s) - 1)
    /\ \A n \in (exon.start + 1)..(exon.stop + 1) : s[n] \in B
    /\ (exon.stop + 1 = Len(s) \/ s[exon.stop + 2] \notin B)

\* C8 as stated: for a sequence holding a base A, C, T, G, U in either case,
\* exon detection returns the first maximal run of such characters, matched
\* case-insensitively.
C8_FirstRunAnyCase ==
    (fn_pc = "detected" /\ Range(in_seq) \cap AnyCaseBases # {})
    => FirstMaximalRun(out_exon, in_seq, AnyCaseBases)

\* C8 amended: for a sequence holding an upper-case A, C, T, G or U, exon
\* detection returns the first maximal run of upper-case A, C, T, G, U,
\* matched case-sensitively.
C8_FirstRunUpperCase ==
    (fn_pc = "detected" /\ Range(in_seq) \cap UpperBases # {})
    => FirstMaximalRun(out_exon, in_seq, UpperBases)

\* C8 witness: lower-case bases before and after the upper-case run.
C8_Witness ==
    /\ fn_pc = "detected"
    /\ in_seq = <<"c", "A", "G">>
    /\ out_exon = Exon(1, 2)

(***************************************************************************)
(* Claims about the pipeline.                                              *)
(***************************************************************************)
ReadingMotifs == pc \in {"oneline_fasta", "read_motifs"}
MotifReadingFailed == pc = "crashed" /\ m_i < Len(motif_file)
RecordsDone ==
    /\ ~ReadingMotifs /\ ~MotifReadingFailed
    /\ pc # "read_records"
ScaleComputed == pc \in {"draw", "done"} \/ (pc = "crashed" /\ exc = "AttributeError")
LaidOut == (pc = "draw" /\ k = Len(GENEGROUP_LIST)) \/ pc = "done"

\* record[1] of the n-th GeneGroup
GeneSeq(n) == strip(oneline[2 * n])
LongestLength ==
    CHOOSE m \in {Len(GeneSeq(n)) : n \in 1..Len(GENEGROUP_LIST)} :
        \A n \in 1..Len(GENEGROUP_LIST) : Len(GeneSeq(n)) <= m

C3_Injective ==
    \A a, b \in 1..Len(motif_dict) : motif_dict[a][2] = motif_dict[b][2] => a = b

\* C3: once the motif list has been read no two motifs have the same colour,
\* whatever the lines (repeated ones included) and the random choices were,
\* and no later step changes the motif-to-colour mapping.
C3_ColorsDistinctAndFixed ==
    /\ [](~ReadingMotifs => C3_Injective)
    /\ [][~ReadingMotifs => motif_dict' = motif_dict]_vars

\* C3 witness: a finished run whose motif list repeated a line and gave
\* colours to three motifs.
C3_Witness ==
    /\ pc = "done"
    /\ Len(motif_dict) = 3
    /\ Len(motif_file) > Len(motif_dict)
    /\ Len(GENEGROUP_LIST) = 3

DistinctMotifs == {strip(motif_file[n]) : n \in 1..Len(motif_file)}

\* C4: with N distinct motifs and the palette of 5, colour assignment succeeds
\* iff N <= 5; when N > 5 the run ends before any scanning in a reported
\* configuration error, never in an unhandled failure of the pool.
C4_AssignmentIffFits ==
    /\ Cardinality(DistinctMotifs) <= Cardinality(Palette) => ~MotifReadingFailed
    /\ Cardinality(DistinctMotifs) > Cardinality(Palette) => pc \notin {"read_records", "layout", "draw", "done"}
    /\ MotifReadingFailed => exc = "PaletteExhausted"

\* C5: a GeneGroup whose exon is None is not carried into layout and drawing:
\* the gene is left out of the groups, or the run aborts with MissingExon.
C5_NoNullExonInLayout ==
    pc \in {"layout", "draw", "done"} =>
        \A n \in 1..Len(GENEGROUP_LIST) : GENEGROUP_LIST[n].exon # None

\* C6: with zero gene groups the run ends in an EmptyInput error raised
\* before the layout takes the maximum, not in the failure of max().
C6_EmptyInputReported ==
    (RecordsDone /\ GENEGROUP_LIST = <<>> /\ pc = "crashed") => exc = "EmptyInput"

\* x is v times the scale factor
ScaledOnce(x, v) == x[1] * scale_factor[2] = v * scale_factor[1] * x[2]

GroupScaledOnce(n) ==
    LET g == GENEGROUP_LIST[n]
        seq == GeneSeq(n)
        e == detect_exon(seq)
        ms == motif_objects_from(seq, motif_dict, 1)
    IN  /\ ScaledOnce(g.gene.start, 0)
        /\ ScaledOnce(g.gene.stop, Len(seq) - 1)
        /\ ScaledOnce(g.exon.start, e.start)
        /\ ScaledOnce(g.exon.stop, e.stop)
        /\ Len(g.motifs) = Len(ms)
        /\ \A j \in 1..Len(ms) :
               /\ ScaledOnce(g.motifs[j].start, ms[j].start[1])
               /\ ScaledOnce(g.motifs[j].stop, ms[j].stop[1])

\* C7 as stated: the one scale factor is (canvasWidth - 2*xPadding) divided by
\* the length of the longest gene (9 for a longest gene of length 100), and
\* after layout every start/stop is its sequence index times that factor, once.
C7_ScaleByLongestLength ==
    /\ ScaleComputed =>
           /\ scale_factor[2] # 0
           /\ scale_factor[1] * LongestLength = (WIDTH - 2 * x_padding) * scale_factor[2]
    /\ LaidOut => \A n \in 1..Len(GENEGROUP_LIST) : GroupScaledOnce(n)

\* C7 amended: the one scale factor is (canvasWidth - 2*xPadding) divided by
\* the largest gene.stop, the length of the longest gene minus one (900/99 for
\* a longest gene of length 100), and after a completed layout every
\* start/stop is its sequence index times that factor, once.
C7_ScaleByLongestStop ==
    /\ ScaleComputed =>
           /\ scale_factor[2] # 0
           /\ scale_factor[1] * (LongestLength - 1) = (WIDTH - 2 * x_padding) * scale_factor[2]
    /\ LaidOut => \A n \in 1..Len(GENEGROUP_LIST) : GroupScaledOnce(n)

\* C7 witness: a finished run whose longest gene has length 100, with motifs
\* drawn, and a scale factor of 900/99.
C7_Witness ==
    /\ pc = "done"
    /\ LongestLength = 100
    /\ REq(scale_factor, <<900, 99>>)
    /\ Len(GENEGROUP_LIST) = 2
    /\ GENEGROUP_LIST[2].motifs # <<>>
    /\ REq(GENEGROUP_LIST[1].gene.stop, Num(900))

\* C9: rows are laid out with one row spacing: row i is drawn at
\* yPadding + i*rowSpacing and the canvas height is
\* baseHeight + groupCount*rowSpacing with the same rowSpacing of 70.
C9_OneRowSpacing ==
    /\ RecordsDone /\ pc # "layout" => HEIGHT = 100 + Len(GENEGROUP_LIST) * 70
    /\ \A n \in 1..Len(rows) : rows[n] = y_padding + (n - 1) * 70

Contained(obj, right) ==
    /\ RLe(Num(0), obj.start)
    /\ RLe(obj.start, obj.stop)
    /\ RLe(obj.stop, right)

\* C10: after a completed layout every gene lies in 0..900, the longest
\* reaching 900, and the exon and every motif of a group lie within
\* 0..gene.stop of the group, start <= stop.
C10_DrawablesContained ==
    LaidOut =>
        \A n \in 1..Len(GENEGROUP_LIST) :
            LET g == GENEGROUP_LIST[n]
            IN  /\ Contained(g.gene, Num(WIDTH - 2 * x_padding))
                /\ Len(GeneSeq(n)) = LongestLength =>
                       REq(g.gene.stop, Num(WIDTH - 2 * x_padding))
                /\ Contained(g.exon, g.gene.stop)
                /\ \A j \in 1..Len(g.motifs) : Contained(g.motifs[j], g.gene.stop)

====
